---------------------------- MODULE Spec2Model ----------------------------
(***************************************************************************)
(* A model of difftoml: the flattener (parse_to_inner), the key filter     *)
(* (filter_keys), the partitioner (compare_vectors) and the report         *)
(* (display, main).                                                        *)
(*                                                                         *)
(* A String is a sequence of one-character strings; a key-path             *)
(* (Vec<String>) is a sequence of Strings; a HashMap is a function from    *)
(* its keys to its values; a toml::Value is a record [tag, v].             *)
(***************************************************************************)
EXTENDS Integers, Sequences, FiniteSets, TLC

VARIABLES
    pc,                 \* position in the running function
    ret,                \* position the running function returns to
    first, second,      \* compare_vectors: its two arguments
    idx,                \* index of the running for loop (1-based)
    in_first_only, in_second_only, in_both, in_both_wrt_second,
    not_found,
    cmp_ret,            \* compare_vectors: the Result it returned
    keys, blackstr,     \* filter_keys: its two arguments
    blacklist,          \* filter_keys: the tokens of blackstr
    included_keys,
    flt_ret,            \* filter_keys: the Vec it returned
    toml_val,           \* parse_to_inner: the value handed to the outermost call
    collection,         \* parse_to_inner: the HashMap passed through the calls
    stack,              \* parse_to_inner: the calls in progress, innermost last
    doc1, doc2,         \* main: what the two files parse to
    first_collection, second_collection,
    display_equal,      \* display: its flag
    out,                \* display: the entries printed so far
    panicked,           \* display: an unreachable!() was reached
    pipe                \* filter_keys and compare_vectors composed: the
                        \* arguments and the values returned so far

cmpVars == <<first, second, in_first_only, in_second_only, in_both,
             in_both_wrt_second, not_found, cmp_ret>>

fltVars == <<keys, blackstr, blacklist, included_keys, flt_ret>>

ptiVars == <<toml_val, collection, stack>>

mainVars == <<doc1, doc2, first_collection, second_collection, display_equal,
              out, panicked>>

vars == <<pc, ret, idx, cmpVars, fltVars, ptiVars, mainVars, pipe>>

---------------------------------------------------------------------------
(* Bounds of the model *)

\* longest Vec<T> handed to compare_vectors
MaxLen == 3

\* the elements of the generic type T of compare_vectors
Elems == {1, 2, 3}

\* most nodes (tables and leaves) of a value tree handed to parse_to_inner
MaxNodes == 5

\* most nodes of each of the two documents main compares
MainNodes == 3

\* the labels of the children of a table
Labels == {<<"a">>, <<"b">>}

\* longest Vec of key-paths handed to filter_keys
MaxKeys == 2

\* longest exclusion string handed to filter_keys
MaxSpec == 3

\* the characters of the exclusion strings
Chars == {"a", "b", ".", ","}

\* the key-paths handed to compare_vectors: two with the same dotted form
\* "a.b" and one prefix of the second
CmpKeyPaths ==
    { << <<"a", ".", "b">> >>,
      << <<"a">>, <<"b">> >>,
      << <<"a">> >> }

\* longest Vec of key-paths handed to the composition of filter_keys and
\* compare_vectors
PipeLen == 2

\* longest exclusion string handed to that composition
PipeSpec == 2

\* the key-paths handed to that composition
PipeKeyPaths == CmpKeyPaths \cup { << <<"b">> >> }

\* the characters of the exclusion strings handed to that composition
PipeChars == {"a", ".", ","}

\* the key-paths handed to filter_keys: the empty path, paths of one, two
\* and three segments, segments of two letters and a segment holding a dot
KeyPaths ==
    { <<>>,
      << <<"a">> >>,
      << <<"b">> >>,
      << <<"a", "b">> >>,
      << <<"a", ".", "b">> >>,
      << <<"a">>, <<"b">> >>,
      << <<"b", "a">>, <<"b">> >>,
      << <<"b">>, <<"a">>, <<"b">> >> }

---------------------------------------------------------------------------
(* Helpers *)

\* all sequences over S of length at most n
SeqUpTo(S, n) == UNION {[1..k -> S] : k \in 0..n}

\* the set of elements of a sequence
Range(s) == {s[i] : i \in 1..Len(s)}

\* a sequence without repeated elements
IsDupFree(s) == \A i, j \in 1..Len(s) : s[i] = s[j] => i = j

NoRet == [tag |-> "None"]

---------------------------------------------------------------------------
(* Strings *)

\* str::contains: needle occurs in hay as a contiguous run of characters
StrContains(hay, needle) ==
    \E k \in 0..(Len(hay) - Len(needle)) :
        \A j \in 1..Len(needle) : hay[k + j] = needle[j]

\* str::split(","): scans s from character i on; cur is the piece being
\* read, acc the pieces closed by a comma so far
RECURSIVE SplitScan(_, _, _, _)
SplitScan(s, i, cur, acc) ==
    IF i > Len(s)
    THEN Append(acc, cur)
    ELSE IF s[i] = ","
         THEN SplitScan(s, i + 1, <<>>, Append(acc, cur))
         ELSE SplitScan(s, i + 1, Append(cur, s[i]), acc)

SplitComma(s) == SplitScan(s, 1, <<>>, <<>>)

\* mutant of convert_string_of_keys_to_list_of_key_str: empty pieces are skipped
convert_string_of_keys_to_list_of_key_str_SkipEmpty(string_of_keys) ==
    SelectSeq(SplitComma(string_of_keys), LAMBDA piece : piece # <<>>)

\* for key in string_of_keys.split(",") { list_of_keys.push(String::from(key)) }
convert_string_of_keys_to_list_of_key_str(string_of_keys) ==
    LET pieces == SplitComma(string_of_keys)
    IN [i \in 1..Len(pieces) |-> pieces[i]]

\* the largest usize that TLC's integers hold; a wrapped len() - 1 lies above
\* every index
USIZE_MAX == 2147483647

\* a - b on usize, wrapping
UsizeSub(a, b) == IF a >= b THEN a - b ELSE USIZE_MAX - (b - a) + 1

\* mutant of KeyStrPushDot: the bound of the test is len(), not len() - 1
KeyStrPushDot_Trailing(key_list, ind, key_str) ==
    IF ind < Len(key_list) THEN Append(key_str, ".") ELSE key_str

\* mutant of KeyStrPushDot: the separator is never pushed
KeyStrPushDot_Never(key_list, ind, key_str) == key_str

\* if ind < key_list.len() - 1 { key_str.push_str(".") }   (ind counts from 0)
KeyStrPushDot(key_list, ind, key_str) ==
    IF ind < UsizeSub(Len(key_list), 1) THEN Append(key_str, ".") ELSE key_str

\* the loop of convert_key_list_to_key_str from index ind on
RECURSIVE KeyStrLoop(_, _, _)
KeyStrLoop(key_list, ind, key_str) ==
    IF ind >= Len(key_list)
    THEN key_str
    ELSE KeyStrLoop(key_list, ind + 1,
                    KeyStrPushDot(key_list, ind, key_str \o key_list[ind + 1]))

\* the values of key_list.len() at which the loop, from index ind on,
\* evaluates key_list.len() - 1
RECURSIVE KeyStrSubOperands(_, _)
KeyStrSubOperands(key_list, ind) ==
    IF ind >= Len(key_list)
    THEN {}
    ELSE {Len(key_list)} \cup KeyStrSubOperands(key_list, ind + 1)

convert_key_list_to_key_str(key_list) == KeyStrLoop(key_list, 0, <<>>)

\* mutant of VecContains: key-paths are compared by their dotted form
VecContains_ByDottedForm(s, e) ==
    \E i \in 1..Len(s) :
        convert_key_list_to_key_str(s[i]) = convert_key_list_to_key_str(e)

\* Vec::contains: some element equals e (T: Eq; for Vec<String> the same
\* segments in the same order and number)
VecContains(s, e) == \E i \in 1..Len(s) : s[i] = e

---------------------------------------------------------------------------
(* filter_keys, one action per key *)

None == [tag |-> "None"]
Some(v) == [tag |-> "Some", val |-> v]

FltIdle ==
    /\ keys = <<>>
    /\ blackstr = None
    /\ blacklist = <<>>
    /\ included_keys = <<>>
    /\ flt_ret = NoRet

\* filter_keys(keys, blackstr) with a new included_keys
FltStart(k, b, r) ==
    /\ keys' = k
    /\ blackstr' = b
    /\ blacklist' = <<>>
    /\ included_keys' = <<>>
    /\ flt_ret' = NoRet
    /\ idx' = 1
    /\ pc' = "flt_match"
    /\ ret' = r

\* mutant of BlacklistStep: a token that does not match sets the flag again
BlacklistStep_LastWins(key_str, blacklisted_key, include_key) ==
    ~StrContains(key_str, blacklisted_key)

\* if key_str.contains(blacklisted_key) { include_key = false; }
BlacklistStep(key_str, blacklisted_key, include_key) ==
    IF StrContains(key_str, blacklisted_key) THEN FALSE ELSE include_key

\* for blacklisted_key in blacklist.iter() { .. }, from token j on
RECURSIVE BlacklistLoop(_, _, _, _)
BlacklistLoop(key_str, list, j, include_key) ==
    IF j > Len(list)
    THEN include_key
    ELSE BlacklistLoop(key_str, list, j + 1,
                       BlacklistStep(key_str, list[j], include_key))

\* match blackstr { Some(val) => { let blacklist = ..; } None => .. }
FltMatch ==
    /\ pc = "flt_match"
    /\ IF blackstr.tag = "Some"
       THEN /\ blacklist' = convert_string_of_keys_to_list_of_key_str(blackstr.val)
            /\ pc' = "flt_some"
       ELSE /\ UNCHANGED blacklist
            /\ pc' = "flt_none"
    /\ idx' = 1
    /\ UNCHANGED <<ret, keys, blackstr, included_keys, flt_ret>>
    /\ UNCHANGED <<cmpVars, ptiVars, mainVars, pipe>>

\* mutant of FltLoopSome: the loop over the keys ends at the first key-path
\* that is not included
FltLoopSome_StopAtDrop ==
    /\ pc = "flt_some"
    /\ IF idx <= Len(keys)
       THEN LET key_str == convert_key_list_to_key_str(keys[idx])
                include_key == BlacklistLoop(key_str, blacklist, 1, TRUE)
            IN /\ included_keys' = IF include_key
                                   THEN Append(included_keys, keys[idx])
                                   ELSE included_keys
               /\ idx' = IF include_key THEN idx + 1 ELSE 1
               /\ pc' = IF include_key THEN pc ELSE "flt_return"
       ELSE /\ pc' = "flt_return"
            /\ idx' = 1
            /\ UNCHANGED included_keys
    /\ UNCHANGED <<ret, keys, blackstr, blacklist, flt_ret>>
    /\ UNCHANGED <<cmpVars, ptiVars, mainVars, pipe>>

\* mutant of FltLoopSome: a key-path already included is not pushed again
FltLoopSome_Dedup ==
    /\ pc = "flt_some"
    /\ IF idx <= Len(keys)
       THEN LET key_str == convert_key_list_to_key_str(keys[idx])
                include_key == BlacklistLoop(key_str, blacklist, 1, TRUE)
            IN /\ included_keys' = IF include_key /\ ~VecContains(included_keys, keys[idx])
                                   THEN Append(included_keys, keys[idx])
                                   ELSE included_keys
               /\ idx' = idx + 1
               /\ UNCHANGED pc
       ELSE /\ pc' = "flt_return"
            /\ idx' = 1
            /\ UNCHANGED included_keys
    /\ UNCHANGED <<ret, keys, blackstr, blacklist, flt_ret>>
    /\ UNCHANGED <<cmpVars, ptiVars, mainVars, pipe>>

\* Some(val): for key in keys.iter() { .. if include_key { push } }
FltLoopSome ==
    /\ pc = "flt_some"
    /\ IF idx <= Len(keys)
       THEN LET key_str == convert_key_list_to_key_str(keys[idx])
                include_key == BlacklistLoop(key_str, blacklist, 1, TRUE)
            IN /\ included_keys' = IF include_key
                                   THEN Append(included_keys, keys[idx])
                                   ELSE included_keys
               /\ idx' = idx + 1
               /\ UNCHANGED pc
       ELSE /\ pc' = "flt_return"
            /\ idx' = 1
            /\ UNCHANGED included_keys
    /\ UNCHANGED <<ret, keys, blackstr, blacklist, flt_ret>>
    /\ UNCHANGED <<cmpVars, ptiVars, mainVars, pipe>>

\* mutant of FltLoopNone: the first key is skipped
FltLoopNone_SkipFirst ==
    /\ pc = "flt_none"
    /\ IF idx <= Len(keys)
       THEN /\ included_keys' = IF idx = 1 THEN included_keys
                                ELSE Append(included_keys, keys[idx])
            /\ idx' = idx + 1
            /\ UNCHANGED pc
       ELSE /\ pc' = "flt_return"
            /\ idx' = 1
            /\ UNCHANGED included_keys
    /\ UNCHANGED <<ret, keys, blackstr, blacklist, flt_ret>>
    /\ UNCHANGED <<cmpVars, ptiVars, mainVars, pipe>>

\* None: for key in keys.iter() { included_keys.push(key.to_vec()); }
FltLoopNone ==
    /\ pc = "flt_none"
    /\ IF idx <= Len(keys)
       THEN /\ included_keys' = Append(included_keys, keys[idx])
            /\ idx' = idx + 1
            /\ UNCHANGED pc
       ELSE /\ pc' = "flt_return"
            /\ idx' = 1
            /\ UNCHANGED included_keys
    /\ UNCHANGED <<ret, keys, blackstr, blacklist, flt_ret>>
    /\ UNCHANGED <<cmpVars, ptiVars, mainVars, pipe>>

\* included_keys
FltReturn ==
    /\ pc = "flt_return"
    /\ flt_ret' = [tag |-> "Vec", val |-> included_keys]
    /\ pc' = ret
    /\ UNCHANGED <<ret, idx, keys, blackstr, blacklist, included_keys>>
    /\ UNCHANGED <<cmpVars, ptiVars, mainVars, pipe>>

filter_keys ==
    \/ FltMatch
    \/ FltLoopSome
    \/ FltLoopNone
    \/ FltReturn

---------------------------------------------------------------------------
(* toml::Value and HashMap *)

Integer(n) == [tag |-> "Integer", v |-> n]
Array(items) == [tag |-> "Array", v |-> items]
Table(map) == [tag |-> "Table", v |-> map]

\* the values that are not tables: two integers, an array of an integer and
\* an array holding an inline table
LeafValues ==
    { Integer(1), Integer(2), Array(<<Integer(1)>>),
      Array(<<Table([l \in {<<"a">>} |-> Integer(1)])>>) }

\* the nodes of a value tree: a table and all it holds, or one leaf
RECURSIVE Size(_)
RECURSIVE SumSize(_, _)
SumSize(map, S) ==
    IF S = {} THEN 0
    ELSE LET l == CHOOSE x \in S : TRUE
         IN Size(map[l]) + SumSize(map, S \ {l})
Size(val) ==
    IF val.tag = "Table" THEN 1 + SumSize(val.v, DOMAIN val.v) ELSE 1

\* the value trees of at most n nodes with leaves from the set leaves
RECURSIVE TreesUpTo(_, _)
TreesUpTo(n, leaves) ==
    IF n <= 0 THEN {}
    ELSE leaves \cup
         { t \in { Table(map) : map \in
                     UNION { [S -> IF S = {} THEN {}
                                   ELSE TreesUpTo(n - Cardinality(S), leaves)] :
                             S \in SUBSET Labels } } :
             Size(t) <= n }

\* HashMap::new()
EmptyMap == <<>>

\* HashMap::insert: the value of an existing key is replaced
MapInsert(map, k, v) ==
    [p \in (DOMAIN map) \cup {k} |-> IF p = k THEN v ELSE map[p]]

---------------------------------------------------------------------------
(* parse_to_inner, one action per call, per child of a table and per return *)

\* a call of parse_to_inner: its key, its toml_val, and for a table the
\* labels into_iter() has not yielded yet
Frame(key, val) ==
    [key |-> key, val |-> val,
     todo |-> IF val.tag = "Table" THEN DOMAIN val.v ELSE {}]

PtiIdle ==
    /\ toml_val = Integer(0)
    /\ collection = EmptyMap
    /\ stack = <<>>

\* parse_to_inner(collection, key, toml) with a new map and an empty key
PtiStart(val, r) ==
    /\ toml_val' = val
    /\ collection' = EmptyMap
    /\ stack' = <<Frame(<<>>, val)>>
    /\ pc' = "pti"
    /\ ret' = r

\* mutant of KeyPop: the label stays on the key
KeyPop_Keep(key) == key

\* key.pop()
KeyPop(key) == SubSeq(key, 1, Len(key) - 1)

\* mutant of PtiReturn: the caller clears its key instead of popping one label
PtiReturn_Clear(stk) ==
    LET rest == SubSeq(stk, 1, Len(stk) - 1)
    IN IF rest = <<>> THEN rest
       ELSE [rest EXCEPT ![Len(rest)].key = <<>>]

\* the innermost call returns; the caller, a table, pops the label it pushed
PtiReturn(stk) ==
    LET rest == SubSeq(stk, 1, Len(stk) - 1)
    IN IF rest = <<>> THEN rest
       ELSE [rest EXCEPT ![Len(rest)].key = KeyPop(@)]

PtiTop == stack[Len(stack)]

\* mutant of PtiInsertLeaf: a leaf under the empty key is not stored
PtiInsertLeaf_SkipRoot ==
    /\ pc = "pti"
    /\ stack # <<>>
    /\ PtiTop.val.tag # "Table"
    /\ collection' = IF PtiTop.key = <<>>
                     THEN collection
                     ELSE MapInsert(collection, PtiTop.key, PtiTop.val)
    /\ stack' = PtiReturn(stack)
    /\ pc' = IF Len(stack) = 1 THEN ret ELSE pc
    /\ UNCHANGED <<ret, idx, toml_val, cmpVars, fltVars, mainVars, pipe>>

\* String, Integer, Float, Boolean, Array, Datetime: collection.insert(key, toml_val)
PtiInsertLeaf ==
    /\ pc = "pti"
    /\ stack # <<>>
    /\ PtiTop.val.tag # "Table"
    /\ collection' = MapInsert(collection, PtiTop.key, PtiTop.val)
    /\ stack' = PtiReturn(stack)
    /\ pc' = IF Len(stack) = 1 THEN ret ELSE pc
    /\ UNCHANGED <<ret, idx, toml_val, cmpVars, fltVars, mainVars, pipe>>

\* Table(map): the next (k, v) of map.into_iter(): key.push(k) and the call
\* parse_to_inner(collection, key.clone(), v)
PtiTableChild ==
    /\ pc = "pti"
    /\ stack # <<>>
    /\ PtiTop.val.tag = "Table"
    /\ \E k \in PtiTop.todo :
          LET pushed == Append(PtiTop.key, k)
              caller == [PtiTop EXCEPT !.key = pushed, !.todo = @ \ {k}]
          IN stack' = Append([stack EXCEPT ![Len(stack)] = caller],
                             Frame(pushed, PtiTop.val.v[k]))
    /\ UNCHANGED <<pc, ret, idx, toml_val, collection, cmpVars, fltVars, mainVars, pipe>>

\* mutant of PtiTableEnd: a table without children is stored like a leaf
PtiTableEnd_StoreEmpty ==
    /\ pc = "pti"
    /\ stack # <<>>
    /\ PtiTop.val.tag = "Table"
    /\ PtiTop.todo = {}
    /\ collection' = IF DOMAIN PtiTop.val.v = {}
                     THEN MapInsert(collection, PtiTop.key, PtiTop.val)
                     ELSE collection
    /\ stack' = PtiReturn(stack)
    /\ pc' = IF Len(stack) = 1 THEN ret ELSE pc
    /\ UNCHANGED <<ret, idx, toml_val, cmpVars, fltVars, mainVars, pipe>>

\* Table(map): into_iter() is exhausted, the call returns collection
PtiTableEnd ==
    /\ pc = "pti"
    /\ stack # <<>>
    /\ PtiTop.val.tag = "Table"
    /\ PtiTop.todo = {}
    /\ stack' = PtiReturn(stack)
    /\ pc' = IF Len(stack) = 1 THEN ret ELSE pc
    /\ UNCHANGED <<ret, idx, toml_val, collection, cmpVars, fltVars, mainVars, pipe>>

parse_to_inner ==
    \/ PtiInsertLeaf
    \/ PtiTableChild
    \/ PtiTableEnd

---------------------------------------------------------------------------
(* compare_vectors, one action per loop iteration (key_handling.rs; main.rs *)
(* holds the same function)                                                *)

CmpStart(f, s, r) ==
    /\ first' = f
    /\ second' = s
    /\ in_first_only' = <<>>
    /\ in_second_only' = <<>>
    /\ in_both' = <<>>
    /\ in_both_wrt_second' = <<>>
    /\ not_found' = FALSE
    /\ cmp_ret' = NoRet
    /\ idx' = 1
    /\ pc' = "cmp_first"
    /\ ret' = r

\* mutant of CmpLoopFirst: the else branch pushes onto in_second_only
CmpLoopFirst_WrongVec ==
    /\ pc = "cmp_first"
    /\ IF idx <= Len(first)
       THEN /\ IF VecContains(second, first[idx])
               THEN /\ in_both' = Append(in_both, first[idx])
                    /\ UNCHANGED in_second_only
               ELSE /\ in_second_only' = Append(in_second_only, first[idx])
                    /\ UNCHANGED in_both
            /\ idx' = idx + 1
            /\ UNCHANGED pc
       ELSE /\ pc' = "cmp_second"
            /\ idx' = 1
            /\ UNCHANGED <<in_both, in_second_only>>
    /\ UNCHANGED <<ret, first, second, in_first_only, in_both_wrt_second,
                   not_found, cmp_ret>>
    /\ UNCHANGED <<fltVars, ptiVars, mainVars, pipe>>

\* for element in first { if second.contains(&element) .. }
CmpLoopFirst ==
    /\ pc = "cmp_first"
    /\ IF idx <= Len(first)
       THEN /\ IF VecContains(second, first[idx])
               THEN /\ in_both' = Append(in_both, first[idx])
                    /\ UNCHANGED in_first_only
               ELSE /\ in_first_only' = Append(in_first_only, first[idx])
                    /\ UNCHANGED in_both
            /\ idx' = idx + 1
            /\ UNCHANGED pc
       ELSE /\ pc' = "cmp_second"
            /\ idx' = 1
            /\ UNCHANGED <<in_both, in_first_only>>
    /\ UNCHANGED <<ret, first, second, in_second_only, in_both_wrt_second,
                   not_found, cmp_ret>>
    /\ UNCHANGED <<fltVars, ptiVars, mainVars, pipe>>

\* mutant of SecondHasInFirst: looks the element up in second itself
SecondHasInFirst_Self(e) == VecContains(second, e)

\* first.contains(&element), the test of the second loop
SecondHasInFirst(e) == VecContains(first, e)

\* mutant of CmpLoopSecond: the else is missing, every element of second is
\* pushed onto in_second_only
CmpLoopSecond_NoElse ==
    /\ pc = "cmp_second"
    /\ IF idx <= Len(second)
       THEN /\ IF VecContains(first, second[idx])
               THEN in_both_wrt_second' = Append(in_both_wrt_second, second[idx])
               ELSE UNCHANGED in_both_wrt_second
            /\ in_second_only' = Append(in_second_only, second[idx])
            /\ idx' = idx + 1
            /\ UNCHANGED pc
       ELSE /\ pc' = "cmp_check_both"
            /\ idx' = 1
            /\ UNCHANGED <<in_both_wrt_second, in_second_only>>
    /\ UNCHANGED <<ret, first, second, in_first_only, in_both, not_found, cmp_ret>>
    /\ UNCHANGED <<fltVars, ptiVars, mainVars, pipe>>

\* for element in second { if first.contains(&element) .. }
CmpLoopSecond ==
    /\ pc = "cmp_second"
    /\ IF idx <= Len(second)
       THEN /\ IF SecondHasInFirst(second[idx])
               THEN /\ in_both_wrt_second' = Append(in_both_wrt_second, second[idx])
                    /\ UNCHANGED in_second_only
               ELSE /\ in_second_only' = Append(in_second_only, second[idx])
                    /\ UNCHANGED in_both_wrt_second
            /\ idx' = idx + 1
            /\ UNCHANGED pc
       ELSE /\ pc' = "cmp_check_both"
            /\ idx' = 1
            /\ UNCHANGED <<in_both_wrt_second, in_second_only>>
    /\ UNCHANGED <<ret, first, second, in_first_only, in_both, not_found, cmp_ret>>
    /\ UNCHANGED <<fltVars, ptiVars, mainVars, pipe>>

\* for element in in_both.iter() { if !in_both_wrt_second.contains(..) }
CmpCheckBoth ==
    /\ pc = "cmp_check_both"
    /\ IF idx <= Len(in_both)
       THEN /\ not_found' = (not_found \/ ~VecContains(in_both_wrt_second, in_both[idx]))
            /\ idx' = idx + 1
            /\ UNCHANGED pc
       ELSE /\ pc' = "cmp_check_wrt_second"
            /\ idx' = 1
            /\ UNCHANGED not_found
    /\ UNCHANGED <<ret, first, second, in_first_only, in_second_only, in_both,
                   in_both_wrt_second, cmp_ret>>
    /\ UNCHANGED <<fltVars, ptiVars, mainVars, pipe>>

\* for element in in_both_wrt_second.iter() { if !in_both.contains(..) }
CmpCheckWrtSecond ==
    /\ pc = "cmp_check_wrt_second"
    /\ IF idx <= Len(in_both_wrt_second)
       THEN /\ not_found' = (not_found \/ ~VecContains(in_both, in_both_wrt_second[idx]))
            /\ idx' = idx + 1
            /\ UNCHANGED pc
       ELSE /\ pc' = "cmp_return"
            /\ idx' = 1
            /\ UNCHANGED not_found
    /\ UNCHANGED <<ret, first, second, in_first_only, in_second_only, in_both,
                   in_both_wrt_second, cmp_ret>>
    /\ UNCHANGED <<fltVars, ptiVars, mainVars, pipe>>

\* mutant of CmpReturn: the two vectors of common elements must also have the
\* same length
CmpReturn_LenCheck ==
    /\ pc = "cmp_return"
    /\ cmp_ret' = IF not_found \/ Len(in_both) # Len(in_both_wrt_second)
                  THEN [tag |-> "Err", msg |-> "ERROR: Asymmetric comparison"]
                  ELSE [tag |-> "Ok", first_only |-> in_first_only,
                        second_only |-> in_second_only, both |-> in_both]
    /\ pc' = ret
    /\ UNCHANGED <<ret, first, second, idx, in_first_only, in_second_only, in_both,
                   in_both_wrt_second, not_found>>
    /\ UNCHANGED <<fltVars, ptiVars, mainVars, pipe>>

\* mutant of CmpReturn: in_both_wrt_second is returned as the third vector
CmpReturn_WrtSecond ==
    /\ pc = "cmp_return"
    /\ cmp_ret' = IF not_found
                  THEN [tag |-> "Err", msg |-> "ERROR: Asymmetric comparison"]
                  ELSE [tag |-> "Ok", first_only |-> in_first_only,
                        second_only |-> in_second_only, both |-> in_both_wrt_second]
    /\ pc' = ret
    /\ UNCHANGED <<ret, first, second, idx, in_first_only, in_second_only, in_both,
                   in_both_wrt_second, not_found>>
    /\ UNCHANGED <<fltVars, ptiVars, mainVars, pipe>>

\* if not_found { return Err(..) }  Ok((in_first_only, in_second_only, in_both))
CmpReturn ==
    /\ pc = "cmp_return"
    /\ cmp_ret' = IF not_found
                  THEN [tag |-> "Err", msg |-> "ERROR: Asymmetric comparison"]
                  ELSE [tag |-> "Ok", first_only |-> in_first_only,
                        second_only |-> in_second_only, both |-> in_both]
    /\ pc' = ret
    /\ UNCHANGED <<ret, first, second, idx, in_first_only, in_second_only, in_both,
                   in_both_wrt_second, not_found>>
    /\ UNCHANGED <<fltVars, ptiVars, mainVars, pipe>>

compare_vectors ==
    \/ CmpLoopFirst
    \/ CmpLoopSecond
    \/ CmpCheckBoth
    \/ CmpCheckWrtSecond
    \/ CmpReturn

---------------------------------------------------------------------------
(* main and display *)

\* what parse_toml makes of a file that is not TOML
ParseError == [tag |-> "Err"]

\* the documents main is run on: a TOML document parses to a table
Documents ==
    { t \in TreesUpTo(MainNodes, {Integer(1), Integer(2)}) : t.tag = "Table" }
        \cup {ParseError}

MainIdle ==
    /\ doc1 = ParseError
    /\ doc2 = ParseError
    /\ first_collection = EmptyMap
    /\ second_collection = EmptyMap
    /\ display_equal = FALSE
    /\ out = <<>>
    /\ panicked = FALSE

\* HashMap::keys().collect(): the keys, each once, in any order
KeysCollect(map) ==
    { ks \in [1..Cardinality(DOMAIN map) -> DOMAIN map] : Range(ks) = DOMAIN map }

\* HashMap::get
MapGet(map, key) == IF key \in DOMAIN map THEN Some(map[key]) ELSE None

\* let first_collection = parse_toml(&first_path)?;
MainParseFirst ==
    /\ pc = "main_start"
    /\ IF doc1 = ParseError
       THEN /\ pc' = "exit_err"
            /\ UNCHANGED <<ret, ptiVars>>
       ELSE PtiStart(doc1, "main_first_parsed")
    /\ UNCHANGED <<idx, cmpVars, fltVars, mainVars, pipe>>

\* let second_collection = parse_toml(&second_path)?;
MainParseSecond ==
    /\ pc = "main_first_parsed"
    /\ first_collection' = collection
    /\ IF doc2 = ParseError
       THEN /\ pc' = "exit_err"
            /\ UNCHANGED <<ret, ptiVars>>
       ELSE PtiStart(doc2, "main_second_parsed")
    /\ UNCHANGED <<idx, cmpVars, fltVars, doc1, doc2, second_collection,
                   display_equal, out, panicked, pipe>>

\* mutant of SecondKeys: the keys of the first map are collected again
SecondKeys_OfFirst == KeysCollect(first_collection)

\* let second_keys: Vec<&Vec<String>> = second_collection.keys().collect();
SecondKeys == KeysCollect(collection)

\* first_keys, second_keys and the call compare_vectors(&first_keys, &second_keys)
MainCompare ==
    /\ pc = "main_second_parsed"
    /\ second_collection' = collection
    /\ \E first_keys \in KeysCollect(first_collection) :
          \E second_keys \in SecondKeys :
              CmpStart(first_keys, second_keys, "main_compared")
    /\ UNCHANGED <<fltVars, ptiVars, doc1, doc2, first_collection,
                   display_equal, out, panicked, pipe>>

\* compare_vectors(..)?  and the call of display; display_equal is the flag
\* input_args read from the command line
MainDisplay ==
    /\ pc = "main_compared"
    /\ IF cmp_ret.tag = "Err"
       THEN /\ pc' = "exit_err"
            /\ UNCHANGED display_equal
       ELSE /\ pc' = "disp_first_only"
            /\ display_equal' \in BOOLEAN
    /\ UNCHANGED <<ret, idx, cmpVars, fltVars, ptiVars, doc1, doc2,
                   first_collection, second_collection, out, panicked, pipe>>

\* for key in ks { match map.get(key) { Some(val) => println!, None => unreachable!() } }
RECURSIVE OnlyLoop(_, _, _, _)
OnlyLoop(ks, map, i, printed) ==
    IF i > Len(ks)
    THEN [out |-> printed, panicked |-> FALSE]
    ELSE LET got == MapGet(map, ks[i])
         IN IF got.tag = "Some"
            THEN OnlyLoop(ks, map, i + 1,
                          Append(printed, [kind |-> "only", key |-> ks[i],
                                           val |-> got.val]))
            ELSE [out |-> printed, panicked |-> TRUE]

\* for key in keys_in_both: both values are looked up; with want_equal FALSE
\* the unequal ones are printed, with want_equal TRUE the equal ones
RECURSIVE BothLoop(_, _, _, _)
BothLoop(ks, want_equal, i, printed) ==
    IF i > Len(ks)
    THEN [out |-> printed, panicked |-> FALSE]
    ELSE LET got1 == MapGet(first_collection, ks[i])
             got2 == MapGet(second_collection, ks[i])
         IN IF got1.tag = "None" \/ got2.tag = "None"
            THEN [out |-> printed, panicked |-> TRUE]
            ELSE BothLoop(ks, want_equal, i + 1,
                   IF (got1.val = got2.val) = want_equal
                   THEN Append(printed,
                               [kind |-> IF want_equal THEN "equal" ELSE "unequal",
                                key |-> ks[i], first_val |-> got1.val,
                                second_val |-> got2.val])
                   ELSE printed)

DisplayStep(res, next) ==
    /\ out' = res.out
    /\ panicked' = res.panicked
    /\ pc' = IF res.panicked THEN "panic" ELSE next
    /\ UNCHANGED <<ret, idx, cmpVars, fltVars, ptiVars, doc1, doc2,
                   first_collection, second_collection, display_equal, pipe>>

\* if !keys_in_first_only.is_empty() { .. }
DisplayFirstOnly ==
    /\ pc = "disp_first_only"
    /\ DisplayStep(
         IF cmp_ret.first_only # <<>>
         THEN OnlyLoop(cmp_ret.first_only, first_collection, 1,
                       Append(out, [kind |-> "header_first"]))
         ELSE [out |-> out, panicked |-> FALSE],
         "disp_second_only")

\* if !keys_in_second_only.is_empty() { .. }
DisplaySecondOnly ==
    /\ pc = "disp_second_only"
    /\ DisplayStep(
         IF cmp_ret.second_only # <<>>
         THEN OnlyLoop(cmp_ret.second_only, second_collection, 1,
                       Append(out, [kind |-> "header_second"]))
         ELSE [out |-> out, panicked |-> FALSE],
         "disp_unequal")

\* if !keys_in_both.is_empty() { for key in keys_in_both.clone() { .. } }
DisplayUnequal ==
    /\ pc = "disp_unequal"
    /\ DisplayStep(
         IF cmp_ret.both # <<>>
         THEN BothLoop(cmp_ret.both, FALSE, 1, out)
         ELSE [out |-> out, panicked |-> FALSE],
         "disp_equal")

\* mutant of DisplayEqual: the equal keys are printed whatever the flag is
DisplayEqual_Always ==
    /\ pc = "disp_equal"
    /\ DisplayStep(
         IF cmp_ret.both # <<>>
         THEN BothLoop(cmp_ret.both, TRUE, 1, out)
         ELSE [out |-> out, panicked |-> FALSE],
         "exit_ok")

\* if display_equal { for key in keys_in_both { .. } }  and the return to main
DisplayEqual ==
    /\ pc = "disp_equal"
    /\ DisplayStep(
         IF cmp_ret.both # <<>> /\ display_equal
         THEN BothLoop(cmp_ret.both, TRUE, 1, out)
         ELSE [out |-> out, panicked |-> FALSE],
         "exit_ok")

display ==
    \/ DisplayFirstOnly
    \/ DisplaySecondOnly
    \/ DisplayUnequal
    \/ DisplayEqual

main ==
    \/ MainParseFirst
    \/ MainParseSecond
    \/ MainCompare
    \/ MainDisplay

---------------------------------------------------------------------------
(* filter_keys and compare_vectors composed in the two orders: the key-paths *)
(* of A and B are filtered and then partitioned, and they are partitioned    *)
(* and each part is then filtered                                            *)

PipeRecord(A, B, e) ==
    [A |-> A, B |-> B, e |-> e, fA |-> <<>>, fB |-> <<>>,
     filtered |-> NoRet, raw |-> NoRet,
     first_only |-> <<>>, second_only |-> <<>>, both |-> <<>>]

PipeIdle == pipe = PipeRecord(<<>>, <<>>, None)

\* filter_keys(&A, e)
PipeFilterFirst ==
    /\ pc = "pipe_start"
    /\ FltStart(pipe.A, pipe.e, "pipe_fA")
    /\ UNCHANGED <<cmpVars, ptiVars, mainVars, pipe>>

\* filter_keys(&B, e)
PipeFilterSecond ==
    /\ pc = "pipe_fA"
    /\ pipe' = [pipe EXCEPT !.fA = flt_ret.val]
    /\ FltStart(pipe.B, pipe.e, "pipe_fB")
    /\ UNCHANGED <<cmpVars, ptiVars, mainVars>>

\* compare_vectors(&filter_keys(&A, e), &filter_keys(&B, e))
PipeCompareFiltered ==
    /\ pc = "pipe_fB"
    /\ pipe' = [pipe EXCEPT !.fB = flt_ret.val]
    /\ CmpStart(pipe.fA, flt_ret.val, "pipe_filtered")
    /\ UNCHANGED <<fltVars, ptiVars, mainVars>>

\* compare_vectors(&A, &B)
PipeCompareRaw ==
    /\ pc = "pipe_filtered"
    /\ pipe' = [pipe EXCEPT !.filtered = cmp_ret]
    /\ CmpStart(pipe.A, pipe.B, "pipe_raw")
    /\ UNCHANGED <<fltVars, ptiVars, mainVars>>

\* filter_keys(&first_only, e) on the Ok of compare_vectors(&A, &B)
PipeFilterFirstOnly ==
    /\ pc = "pipe_raw"
    /\ pipe' = [pipe EXCEPT !.raw = cmp_ret]
    /\ IF cmp_ret.tag = "Ok"
       THEN FltStart(cmp_ret.first_only, pipe.e, "pipe_first_only")
       ELSE /\ pc' = "pipe_err"
            /\ UNCHANGED <<ret, idx, fltVars>>
    /\ UNCHANGED <<cmpVars, ptiVars, mainVars>>

\* filter_keys(&second_only, e)
PipeFilterSecondOnly ==
    /\ pc = "pipe_first_only"
    /\ pipe' = [pipe EXCEPT !.first_only = flt_ret.val]
    /\ FltStart(pipe.raw.second_only, pipe.e, "pipe_second_only")
    /\ UNCHANGED <<cmpVars, ptiVars, mainVars>>

\* filter_keys(&both, e)
PipeFilterBoth ==
    /\ pc = "pipe_second_only"
    /\ pipe' = [pipe EXCEPT !.second_only = flt_ret.val]
    /\ FltStart(pipe.raw.both, pipe.e, "pipe_both")
    /\ UNCHANGED <<cmpVars, ptiVars, mainVars>>

PipeDone ==
    /\ pc = "pipe_both"
    /\ pipe' = [pipe EXCEPT !.both = flt_ret.val]
    /\ pc' = "pipe_done"
    /\ UNCHANGED <<ret, idx, cmpVars, fltVars, ptiVars, mainVars>>

Pipe ==
    \/ PipeFilterFirst
    \/ PipeFilterSecond
    \/ PipeCompareFiltered
    \/ PipeCompareRaw
    \/ PipeFilterFirstOnly
    \/ PipeFilterSecondOnly
    \/ PipeFilterBoth
    \/ PipeDone

---------------------------------------------------------------------------
(* SpecCompare: compare_vectors on every pair of vectors within the bounds *)

InitCompare ==
    /\ first \in SeqUpTo(Elems, MaxLen)
    /\ second \in SeqUpTo(Elems, MaxLen)
    /\ in_first_only = <<>>
    /\ in_second_only = <<>>
    /\ in_both = <<>>
    /\ in_both_wrt_second = <<>>
    /\ not_found = FALSE
    /\ cmp_ret = NoRet
    /\ idx = 1
    /\ pc = "cmp_first"
    /\ ret = "done"
    /\ FltIdle
    /\ PtiIdle
    /\ MainIdle
    /\ PipeIdle

NextCompare == compare_vectors

SpecCompare == InitCompare /\ [][NextCompare]_vars

---------------------------------------------------------------------------
(* SpecCompareKeys: compare_vectors with T = Vec<String>, on every pair of *)
(* vectors of key-paths within the bounds                                  *)

InitCompareKeys ==
    /\ first \in SeqUpTo(CmpKeyPaths, MaxLen)
    /\ second \in SeqUpTo(CmpKeyPaths, MaxLen)
    /\ in_first_only = <<>>
    /\ in_second_only = <<>>
    /\ in_both = <<>>
    /\ in_both_wrt_second = <<>>
    /\ not_found = FALSE
    /\ cmp_ret = NoRet
    /\ idx = 1
    /\ pc = "cmp_first"
    /\ ret = "done"
    /\ FltIdle
    /\ PtiIdle
    /\ MainIdle
    /\ PipeIdle

NextCompareKeys == compare_vectors

SpecCompareKeys == InitCompareKeys /\ [][NextCompareKeys]_vars

---------------------------------------------------------------------------
(* SpecFilter: filter_keys on every Vec of key-paths and every exclusion   *)
(* string within the bounds                                                *)

CmpIdle ==
    /\ first = <<>>
    /\ second = <<>>
    /\ in_first_only = <<>>
    /\ in_second_only = <<>>
    /\ in_both = <<>>
    /\ in_both_wrt_second = <<>>
    /\ not_found = FALSE
    /\ cmp_ret = NoRet

InitFilter ==
    /\ keys \in SeqUpTo(KeyPaths, MaxKeys)
    /\ blackstr \in {None} \cup {Some(v) : v \in SeqUpTo(Chars, MaxSpec)}
    /\ blacklist = <<>>
    /\ included_keys = <<>>
    /\ flt_ret = NoRet
    /\ idx = 1
    /\ pc = "flt_match"
    /\ ret = "done"
    /\ CmpIdle
    /\ PtiIdle
    /\ MainIdle
    /\ PipeIdle

NextFilter == filter_keys

SpecFilter == InitFilter /\ [][NextFilter]_vars

---------------------------------------------------------------------------
(* SpecPipeline: the two compositions on every pair of duplicate-free Vecs  *)
(* of key-paths and every exclusion string within the bounds                *)

InitPipeline ==
    /\ \E A \in SeqUpTo(PipeKeyPaths, PipeLen), B \in SeqUpTo(PipeKeyPaths, PipeLen) :
          /\ IsDupFree(A)
          /\ IsDupFree(B)
          /\ \E e \in {None} \cup {Some(v) : v \in SeqUpTo(PipeChars, PipeSpec)} :
                pipe = PipeRecord(A, B, e)
    /\ idx = 1
    /\ pc = "pipe_start"
    /\ ret = "done"
    /\ CmpIdle
    /\ FltIdle
    /\ PtiIdle
    /\ MainIdle

NextPipeline ==
    \/ Pipe
    \/ filter_keys
    \/ compare_vectors

SpecPipeline == InitPipeline /\ [][NextPipeline]_vars

---------------------------------------------------------------------------
(* SpecFlatten: parse_to_inner on every value tree within the bounds, from  *)
(* an empty map and an empty key                                           *)

InitFlatten ==
    /\ toml_val \in TreesUpTo(MaxNodes, LeafValues)
    /\ collection = EmptyMap
    /\ stack = <<Frame(<<>>, toml_val)>>
    /\ idx = 1
    /\ pc = "pti"
    /\ ret = "done"
    /\ CmpIdle
    /\ FltIdle
    /\ MainIdle
    /\ PipeIdle

NextFlatten == parse_to_inner

SpecFlatten == InitFlatten /\ [][NextFlatten]_vars

---------------------------------------------------------------------------
(* SpecMain: main on every pair of documents within the bounds *)

InitMain ==
    /\ doc1 \in Documents
    /\ doc2 \in Documents
    /\ first_collection = EmptyMap
    /\ second_collection = EmptyMap
    /\ display_equal = FALSE
    /\ out = <<>>
    /\ panicked = FALSE
    /\ idx = 1
    /\ pc = "main_start"
    /\ ret = "done"
    /\ CmpIdle
    /\ FltIdle
    /\ PtiIdle
    /\ PipeIdle

NextMain ==
    \/ main
    \/ parse_to_inner
    \/ compare_vectors
    \/ display

SpecMain == InitMain /\ [][NextMain]_vars

---------------------------------------------------------------------------
(* Claims about compare_vectors (SpecCompare) *)

CmpOk == cmp_ret.tag = "Ok"

FirstOnlySet == Range(cmp_ret.first_only)
SecondOnlySet == Range(cmp_ret.second_only)
BothSet == Range(cmp_ret.both)

\* C1: for duplicate-free first and second, a successful compare_vectors
\* returns three collections whose union is first \cup second and which are
\* pairwise disjoint.
C1_PartitionCoversAndDisjoint ==
    (CmpOk /\ IsDupFree(first) /\ IsDupFree(second)) =>
        /\ FirstOnlySet \cup BothSet \cup SecondOnlySet = Range(first) \cup Range(second)
        /\ FirstOnlySet \cap BothSet = {}
        /\ FirstOnlySet \cap SecondOnlySet = {}
        /\ SecondOnlySet \cap BothSet = {}

C1_Witness ==
    /\ CmpOk /\ IsDupFree(first) /\ IsDupFree(second)
    /\ FirstOnlySet # {} /\ SecondOnlySet # {} /\ BothSet # {}

\* C2: for duplicate-free first and second the symmetry check never fails:
\* not_found is never set, no Err is returned, and once both loops are over
\* in_both and in_both_wrt_second hold the same set of elements.
C2_SymmetryNeverFails ==
    (IsDupFree(first) /\ IsDupFree(second)) =>
        /\ ~not_found
        /\ cmp_ret.tag # "Err"
        /\ pc \in {"cmp_check_both", "cmp_check_wrt_second", "cmp_return"}
              => Range(in_both) = Range(in_both_wrt_second)

C2_Witness ==
    /\ CmpOk /\ IsDupFree(first) /\ IsDupFree(second)
    /\ Len(in_both) >= 2
    /\ in_both # in_both_wrt_second
    /\ Len(in_first_only) >= 1

\* C3: on success first_only is the subsequence of first of the elements not
\* in second, and second_only the subsequence of second of the elements not
\* in first, each in the order of its source.
C3_OnlyAreSubsequences ==
    CmpOk =>
        /\ cmp_ret.first_only = SelectSeq(first, LAMBDA e : e \notin Range(second))
        /\ cmp_ret.second_only = SelectSeq(second, LAMBDA e : e \notin Range(first))

C3_Witness ==
    /\ CmpOk
    /\ Len(cmp_ret.first_only) >= 2
    /\ Len(cmp_ret.second_only) >= 1
    /\ Len(cmp_ret.both) >= 1

\* C11: the 'both' vector of a successful compare_vectors is the subsequence
\* of first made of the elements present in second, in the order of first.
C11_BothIsBuiltFromFirst ==
    CmpOk => cmp_ret.both = SelectSeq(first, LAMBDA e : e \in Range(second))

\* the common elements come in another order in second
C11_Witness ==
    /\ CmpOk
    /\ Len(cmp_ret.both) >= 2
    /\ cmp_ret.both # SelectSeq(second, LAMBDA e : e \in Range(first))
    /\ IsDupFree(first) /\ IsDupFree(second)

\* how often e occurs in the sequence s
Count(s, e) == Cardinality({ i \in 1..Len(s) : s[i] = e })

\* C19: compare_vectors returns Ok for every pair of inputs, repeated
\* elements included: the symmetry check goes by membership, so it never
\* sets not_found and the "Asymmetric comparison" error is never returned;
\* repeated elements keep their multiplicity, so
\* length(first_only) + length(both) = length(first).
C19_AlwaysOkWithMultiplicity ==
    /\ ~not_found
    /\ cmp_ret.tag # "Err"
    /\ pc = "done" => CmpOk
    /\ CmpOk =>
          /\ Len(cmp_ret.first_only) + Len(cmp_ret.both) = Len(first)
          /\ Len(cmp_ret.second_only) + Len(in_both_wrt_second) = Len(second)
          /\ \A e \in Range(first) :
                Count(first, e) = Count(cmp_ret.first_only, e) + Count(cmp_ret.both, e)

\* an element twice in first and once in second: both holds it twice, while
\* one element of second is in first
C19_Witness ==
    /\ CmpOk
    /\ ~IsDupFree(first)
    /\ Len(cmp_ret.both) = 2
    /\ Len(in_both_wrt_second) = 1
    /\ Len(cmp_ret.first_only) = 1

---------------------------------------------------------------------------
(* Claims about compare_vectors on key-paths (SpecCompareKeys) *)

\* two key-paths with the same segments in the same order and number
SameSegments(p, q) ==
    /\ Len(p) = Len(q)
    /\ \A i \in 1..Len(p) :
          /\ Len(p[i]) = Len(q[i])
          /\ \A c \in 1..Len(p[i]) : p[i][c] = q[i][c]

\* the segments of kp written one after the other with "." between them
RECURSIVE DottedForm(_)
DottedForm(kp) ==
    IF kp = <<>> THEN <<>>
    ELSE IF Len(kp) = 1 THEN kp[1]
    ELSE kp[1] \o <<".">> \o DottedForm(Tail(kp))

\* C16: compare_vectors decides membership by structural equality of
\* key-paths, never by dotted form: a key-path of first is in both iff second
\* holds a key-path with the same segments, and in first_only otherwise (and
\* the same for second); so two key-paths with the same dotted form but
\* different segments, one in first only and one in second only, are reported
\* in first_only and second_only and not in both.
C16_StructuralMembership ==
    CmpOk =>
        /\ \A p \in Range(first) :
              LET there == \E q \in Range(second) : SameSegments(p, q)
              IN /\ (p \in BothSet) = there
                 /\ (p \in FirstOnlySet) = ~there
        /\ \A q \in Range(second) :
              LET there == \E p \in Range(first) : SameSegments(p, q)
              IN /\ (q \in BothSet) = there
                 /\ (q \in SecondOnlySet) = ~there
        /\ \A p \in Range(first), q \in Range(second) :
              (/\ DottedForm(p) = DottedForm(q)
               /\ ~SameSegments(p, q)
               /\ p \notin Range(second)
               /\ q \notin Range(first))
              => /\ p \in FirstOnlySet /\ p \notin BothSet
                 /\ q \in SecondOnlySet /\ q \notin BothSet

\* ["a.b"] in first and ["a", "b"] in second, next to a key-path of both
C16_Witness ==
    /\ CmpOk
    /\ first = << << <<"a", ".", "b">> >>, << <<"a">> >> >>
    /\ second = << << <<"a">> >>, << <<"a">>, <<"b">> >> >>
    /\ cmp_ret.first_only = << << <<"a", ".", "b">> >> >>
    /\ cmp_ret.second_only = << << <<"a">>, <<"b">> >> >>
    /\ cmp_ret.both = << << <<"a">> >> >>

---------------------------------------------------------------------------
(* Claims about filter_keys (SpecFilter) *)

FltReturned == flt_ret.tag = "Vec"

\* the dotted form of a key-path: its segments joined with "."
RECURSIVE Dotted(_)
Dotted(kp) ==
    IF kp = <<>> THEN <<>>
    ELSE IF Len(kp) = 1 THEN kp[1]
    ELSE kp[1] \o <<".">> \o Dotted(Tail(kp))

\* the comma-separated tokens of spec: the maximal comma-free runs
Tokens(spec) ==
    { SubSeq(spec, i, j) : <<i, j>> \in
        { <<i, j>> \in (1..Len(spec) + 1) \X (0..Len(spec)) :
            /\ j >= i - 1
            /\ i = 1 \/ spec[i - 1] = ","
            /\ j = Len(spec) \/ spec[j + 1] = ","
            /\ \A k \in i..j : spec[k] # "," } }

\* t is a contiguous substring of s
IsSubstring(t, s) ==
    \E i \in 1..Len(s) + 1 : \E j \in (i - 1)..Len(s) : SubSeq(s, i, j) = t

Excluded(kp, spec) == \E t \in Tokens(spec) : IsSubstring(t, Dotted(kp))

\* C4: filter_keys(keys, None) returns keys: same key-paths, same order,
\* same length.
C4_NoneReturnsInput ==
    (FltReturned /\ blackstr = None) => flt_ret.val = keys

C4_Witness ==
    /\ FltReturned /\ blackstr = None
    /\ Len(keys) >= 2
    /\ keys[1] # keys[2]

\* C5: with Some(spec), a key-path of keys is in the output if and only if no
\* comma-separated token of spec is a contiguous substring of its dotted form.
C5_RetainedIffNoTokenMatches ==
    (FltReturned /\ blackstr.tag = "Some") =>
        \A i \in 1..Len(keys) :
            (keys[i] \in Range(flt_ret.val)) <=> ~Excluded(keys[i], blackstr.val)

\* the first of two tokens matches a part of a segment of a key-path, the
\* second matches nothing; that key-path is dropped and another one is kept
C5_Witness ==
    /\ FltReturned /\ blackstr.tag = "Some"
    /\ Len(blacklist) = 2
    /\ Len(keys) = 2
    /\ StrContains(Dotted(keys[1]), blacklist[1])
    /\ blacklist[1] # Dotted(keys[1])
    /\ ~StrContains(Dotted(keys[1]), blacklist[2])
    /\ flt_ret.val = <<keys[2]>>

\* C6: the output of filter_keys is a subsequence of its input: it is the
\* input with every occurrence of the dropped key-paths removed, so order and
\* multiplicity of the surviving key-paths are kept and nothing is added.
C6_OutputIsSubsequence ==
    FltReturned =>
        flt_ret.val = SelectSeq(keys, LAMBDA k : k \in Range(flt_ret.val))

C6_Witness ==
    /\ FltReturned /\ blackstr.tag = "Some"
    /\ Len(keys) = 2
    /\ keys[1] = keys[2]
    /\ flt_ret.val = keys

HasEmptyToken(spec) ==
    \/ spec = <<>>
    \/ spec[1] = ","
    \/ spec[Len(spec)] = ","
    \/ \E i \in 1..(Len(spec) - 1) : spec[i] = "," /\ spec[i + 1] = ","

\* C7: when the exclusion string has an empty token (it is empty, starts or
\* ends with a comma, or has two adjacent commas) filter_keys returns the empty
\* Vec, whatever the other tokens are.
C7_EmptyTokenExcludesAll ==
    (FltReturned /\ blackstr.tag = "Some" /\ HasEmptyToken(blackstr.val)) =>
        flt_ret.val = <<>>

\* the other token matches no key-path, the empty one drops them all
C7_Witness ==
    /\ FltReturned /\ blackstr.tag = "Some" /\ HasEmptyToken(blackstr.val)
    /\ Len(keys) = 2
    /\ \E j \in 1..Len(blacklist) :
          /\ blacklist[j] # <<>>
          /\ \A i \in 1..Len(keys) : ~StrContains(Dotted(keys[i]), blacklist[j])
    /\ flt_ret.val = <<>>

\* a token of dot-joined segments: no comma, no empty segment
IsSegToken(tok) ==
    /\ tok # <<>>
    /\ "," \notin Range(tok)
    /\ tok[1] # "." /\ tok[Len(tok)] # "."
    /\ \A p \in 1..(Len(tok) - 1) : ~(tok[p] = "." /\ tok[p + 1] = ".")

DotCount(str) == Cardinality({ p \in 1..Len(str) : str[p] = "." })

IsTwoSegToken(tok) == IsSegToken(tok) /\ DotCount(tok) = 1

\* the two segments of a two-segment token
TokenHead(tok) == SubSeq(tok, 1, (CHOOSE p \in 1..Len(tok) : tok[p] = ".") - 1)
TokenTail(tok) == SubSeq(tok, (CHOOSE p \in 1..Len(tok) : tok[p] = ".") + 1, Len(tok))

EndsWith(str, x) ==
    Len(x) <= Len(str) /\ SubSeq(str, Len(str) - Len(x) + 1, Len(str)) = x
BeginsWith(str, y) ==
    Len(y) <= Len(str) /\ SubSeq(str, 1, Len(y)) = y

\* the key-path has the segment x immediately followed by the segment y
HasAdjacentSegments(kp, x, y) ==
    \E j \in 1..(Len(kp) - 1) : kp[j] = x /\ kp[j + 1] = y

\* a segment ending with x is immediately followed by a segment beginning
\* with y, or one segment holds x.y itself
SpanMatch(kp, tok) ==
    \/ \E j \in 1..(Len(kp) - 1) :
          EndsWith(kp[j], TokenHead(tok)) /\ BeginsWith(kp[j + 1], TokenTail(tok))
    \/ \E j \in 1..Len(kp) : IsSubstring(tok, kp[j])

DotFree(kp) == \A j \in 1..Len(kp) : "." \notin Range(kp[j])

Dropped(i) == keys[i] \notin Range(flt_ret.val)

\* C12 as stated: a token of two dot-joined segments drops a key-path only
\* when the key-path has the first segment immediately followed by the second,
\* and a token with more dot-joined segments than a key-path does not drop it.
C12_Original ==
    (FltReturned /\ blackstr.tag = "Some" /\ IsSegToken(blackstr.val)) =>
        \A i \in 1..Len(keys) :
            /\ (IsTwoSegToken(blackstr.val) /\ Dropped(i)) =>
                  HasAdjacentSegments(keys[i], TokenHead(blackstr.val),
                                      TokenTail(blackstr.val))
            /\ DotCount(blackstr.val) + 1 > Len(keys[i]) => ~Dropped(i)

\* C12 as amended: a token x.y of two dot-joined segments drops a key-path
\* exactly when a segment ending with x is immediately followed by a segment
\* beginning with y or a single segment contains x.y; a token with more
\* dot-joined segments than a key-path does not drop that key-path when none
\* of its segments contains a dot.
C12_TwoSegmentToken ==
    (FltReturned /\ blackstr.tag = "Some" /\ IsSegToken(blackstr.val)) =>
        \A i \in 1..Len(keys) :
            /\ IsTwoSegToken(blackstr.val) =>
                  (Dropped(i) <=> SpanMatch(keys[i], blackstr.val))
            /\ (DotFree(keys[i]) /\ DotCount(blackstr.val) + 1 > Len(keys[i]))
                  => ~Dropped(i)

\* the token a.b drops [ba, b], whose segments only end and begin with a and
\* b, and keeps the one-segment key-path [ab]
C12_Witness ==
    /\ FltReturned
    /\ blackstr = Some(<<"a", ".", "b">>)
    /\ keys = << << <<"b", "a">>, <<"b">> >>, << <<"a", "b">> >> >>
    /\ flt_ret.val = << << <<"a", "b">> >> >>

\* the lengths of the segments of kp added up
RECURSIVE SumLen(_)
SumLen(kp) == IF kp = <<>> THEN 0 ELSE Len(kp[1]) + SumLen(Tail(kp))

\* C18: convert_key_list_to_key_str returns the segments of the key-path in
\* order with exactly one "." between consecutive segments and none at the
\* start or the end, len - 1 separators for a non-empty path; for the empty
\* key-path it returns the empty string, and key_list.len() - 1 is never
\* evaluated with len() = 0, so the subtraction never wraps.
C18_DottedFormNoUnderflow ==
    \A i \in 1..Len(keys) :
        LET kp == keys[i]
            str == convert_key_list_to_key_str(kp)
        IN /\ str = Dotted(kp)
           /\ kp = <<>> => str = <<>> /\ KeyStrSubOperands(kp, 0) = {}
           /\ kp # <<>> =>
                 /\ Len(str) = SumLen(kp) + (Len(kp) - 1)
                 /\ SubSeq(str, 1, Len(kp[1])) = kp[1]
                 /\ SubSeq(str, Len(str) - Len(kp[Len(kp)]) + 1, Len(str))
                       = kp[Len(kp)]
           /\ \A n \in KeyStrSubOperands(kp, 0) :
                 n >= 1 /\ UsizeSub(n, 1) = n - 1

\* filter_keys has converted the empty key-path and a key-path of three
\* segments
C18_Witness ==
    /\ FltReturned
    /\ blackstr.tag = "Some"
    /\ keys = << <<>>, << <<"b">>, <<"a">>, <<"b">> >> >>
    /\ convert_key_list_to_key_str(keys[1]) = <<>>
    /\ convert_key_list_to_key_str(keys[2]) = <<"b", ".", "a", ".", "b">>

---------------------------------------------------------------------------
(* Claims about parse_to_inner (SpecFlatten) *)

\* the paths of all nodes of a value tree, the root's being the empty path
RECURSIVE Paths(_)
Paths(val) ==
    {<<>>} \cup
    IF val.tag = "Table"
    THEN UNION { { <<l>> \o p : p \in Paths(val.v[l]) } : l \in DOMAIN val.v }
    ELSE {}

\* the node a path leads to
RECURSIVE NodeAt(_, _)
NodeAt(val, path) ==
    IF path = <<>> THEN val ELSE NodeAt(val.v[Head(path)], Tail(path))

LeafPaths(val) == { p \in Paths(val) : NodeAt(val, p).tag # "Table" }
TablePaths(val) == { p \in Paths(val) : NodeAt(val, p).tag = "Table" }

\* C8: flattening from an empty key yields exactly one entry per leaf, keyed
\* by the labels on the path from the root to the leaf and holding the leaf;
\* the path of a table has no entry.
C8_OneEntryPerLeaf ==
    pc = "done" =>
        /\ DOMAIN collection = LeafPaths(toml_val)
        /\ \A p \in LeafPaths(toml_val) : collection[p] = NodeAt(toml_val, p)
        /\ \A p \in TablePaths(toml_val) : p \notin DOMAIN collection

\* {a: {a: 1, b: {a: 2}}} gives exactly {[a,a]: 1, [a,b,a]: 2}
C8_Witness ==
    /\ pc = "done"
    /\ toml_val = Table(<<"a">> :> Table(<<"a">> :> Integer(1) @@
                                         <<"b">> :> Table(<<"a">> :> Integer(2))))
    /\ collection = (<< <<"a">>, <<"a">> >> :> Integer(1) @@
                     << <<"a">>, <<"b">>, <<"a">> >> :> Integer(2))

IsEmptyTable(val) == val.tag = "Table" /\ DOMAIN val.v = {}

\* C9: an empty table at any depth contributes no entry: its path is no key
\* of the flattened map, and a tree without a leaf (an empty root table,
\* {a: {}}) flattens to the empty map.
C9_EmptyTableNoEntry ==
    pc = "done" =>
        /\ \A p \in Paths(toml_val) :
              IsEmptyTable(NodeAt(toml_val, p)) => p \notin DOMAIN collection
        /\ LeafPaths(toml_val) = {} => collection = EmptyMap

\* {a: {}} has been flattened to the empty map
C9_Witness ==
    /\ pc = "done"
    /\ toml_val = Table(<<"a">> :> Table(<<>>))
    /\ collection = EmptyMap

\* the value is a table or an array that holds one, at any depth
RECURSIVE ContainsTable(_)
ContainsTable(val) ==
    \/ val.tag = "Table"
    \/ /\ val.tag = "Array"
       /\ \E i \in 1..Len(val.v) : ContainsTable(val.v[i])

\* C13: no value stored in the flattened map of a document is a table, and
\* no stored value contains a table: an array stored as a leaf holds leaf
\* values only.
C13_NoStoredValueHoldsTable ==
    toml_val.tag = "Table" =>
        \A p \in DOMAIN collection : ~ContainsTable(collection[p])

\* the map every traversal order must end with: a function of the tree alone
LeafMap(val) == [p \in LeafPaths(val) |-> NodeAt(val, p)]

\* C14: the flattened map does not depend on the order in which the children
\* of a table are visited: whatever child is taken next, the key of the
\* running call is the path of its node (the pop after each child restores
\* the shared prefix), every entry made so far is the entry of a leaf under
\* its own path, and the final map is the same for every order.
C14_OrderIndependent ==
    /\ stack # <<>> =>
          /\ PtiTop.key \in Paths(toml_val)
          /\ NodeAt(toml_val, PtiTop.key) = PtiTop.val
    /\ \A p \in DOMAIN collection :
          /\ p \in LeafPaths(toml_val)
          /\ collection[p] = NodeAt(toml_val, p)
    /\ pc = "done" => collection = LeafMap(toml_val)

\* in {a: {a: 1, b: 2}} the child b of the inner table was visited first and
\* the child a is still to come
C14_Witness ==
    /\ pc = "pti"
    /\ toml_val = Table(<<"a">> :> Table(<<"a">> :> Integer(1) @@ <<"b">> :> Integer(2)))
    /\ DOMAIN collection = { << <<"a">>, <<"b">> >> }
    /\ Len(stack) = 2
    /\ PtiTop.todo = { <<"a">> }

\* C15: flattening a tree whose root is a leaf yields a map with exactly one
\* entry, keyed by the empty key-path and holding that leaf unchanged.
C15_LeafRootSingleEntry ==
    (pc = "done" /\ toml_val.tag # "Table") =>
        /\ DOMAIN collection = { <<>> }
        /\ collection[<<>>] = toml_val

\* the flattening of a root that is an array has returned
C15_Witness ==
    /\ pc = "done"
    /\ stack = <<>>
    /\ toml_val = Array(<<Integer(1)>>)
    /\ collection = (<<>> :> Array(<<Integer(1)>>))

---------------------------------------------------------------------------
(* Claims about main and display (SpecMain) *)

\* C10: every key-path compare_vectors reports comes from the flattened maps
\* whose keys it was given: first_only from the first map, second_only from
\* the second, both from both; no lookup of display misses and no
\* unreachable!() is reached.
C10_ReportedKeysAreMapKeys ==
    /\ ~panicked
    /\ pc # "panic"
    /\ CmpOk =>
          /\ FirstOnlySet \subseteq DOMAIN first_collection
          /\ SecondOnlySet \subseteq DOMAIN second_collection
          /\ BothSet \subseteq (DOMAIN first_collection) \cap (DOMAIN second_collection)

\* display has run to its end and printed a key of the first map only and a
\* key of both maps with unequal values
C10_Witness ==
    /\ pc = "exit_ok"
    /\ ~panicked
    /\ \E i \in 1..Len(out) : out[i].kind = "only"
    /\ \E i \in 1..Len(out) : out[i].kind = "unequal"


\* the report entries of one kind for key k
Reported(kind, k) ==
    { i \in 1..Len(out) : out[i].kind = kind /\ out[i].key = k }

\* C17: in the finished report every key in both is classified by comparing
\* its value in the first map with its value in the second map: it is
\* reported as unequal iff the two values differ, and as equal iff they are
\* equal and display_equal is set; so with display_equal unset no equal key
\* is reported, and no key is reported as both equal and unequal. Each entry
\* shows the two values of its key.
C17_BothKeysClassifiedByValue ==
    pc = "exit_ok" =>
        /\ \A k \in BothSet :
              LET v1 == first_collection[k]
                  v2 == second_collection[k]
              IN /\ (Reported("unequal", k) # {}) = (v1 # v2)
                 /\ (Reported("equal", k) # {}) = (v1 = v2 /\ display_equal)
                 /\ ~(Reported("unequal", k) # {} /\ Reported("equal", k) # {})
                 /\ \A i \in Reported("unequal", k) \cup Reported("equal", k) :
                       out[i].first_val = v1 /\ out[i].second_val = v2
        /\ \A i \in 1..Len(out) :
              out[i].kind \in {"unequal", "equal"} => out[i].key \in BothSet
        /\ ~display_equal => \A i \in 1..Len(out) : out[i].kind # "equal"

\* with display_equal set, {a = 1, b = 2} against {a = 1, b = 1} is reported
\* with a equal and b unequal
C17_Witness ==
    /\ pc = "exit_ok"
    /\ display_equal
    /\ BothSet = { << <<"a">> >>, << <<"b">> >> }
    /\ Reported("equal", << <<"a">> >>) # {}
    /\ Reported("unequal", << <<"b">> >>) # {}
    /\ Reported("unequal", << <<"a">> >>) = {}
    /\ Reported("equal", << <<"b">> >>) = {}

---------------------------------------------------------------------------
(* Claims about filter_keys composed with compare_vectors (SpecPipeline) *)

\* C20: filtering commutes with partitioning: for duplicate-free A and B and
\* every exclusion string e, compare_vectors(filter_keys(A, e),
\* filter_keys(B, e)) returns the same three sequences as filter_keys with e
\* applied to first_only, second_only and both of compare_vectors(A, B); no
\* key-path of both is moved to first_only or second_only by the filter.
C20_FilterCommutesWithPartition ==
    /\ pc # "pipe_err"
    /\ pc = "pipe_done" =>
          /\ pipe.filtered.tag = "Ok"
          /\ pipe.raw.tag = "Ok"
          /\ pipe.filtered.first_only = pipe.first_only
          /\ pipe.filtered.second_only = pipe.second_only
          /\ pipe.filtered.both = pipe.both
          /\ Range(pipe.raw.both) \cap Range(pipe.filtered.first_only) = {}
          /\ Range(pipe.raw.both) \cap Range(pipe.filtered.second_only) = {}

\* both compositions have returned; the filter took the key-path of
\* first_only and kept the key-paths of both and of second_only
C20_Witness ==
    /\ pc = "pipe_done"
    /\ pipe.e.tag = "Some"
    /\ Len(pipe.raw.both) = 1
    /\ Len(pipe.raw.first_only) = 1
    /\ Len(pipe.raw.second_only) = 1
    /\ pipe.both = pipe.raw.both
    /\ pipe.first_only = <<>>
    /\ pipe.second_only = pipe.raw.second_only
=============================================================================
